---- MODULE Spec2Model ----
(***************************************************************************)
(* Stage-gated advising backend: the persisted state of one user          *)
(* (UserProfile, UserState, Shortlist rows, Task rows) and the request    *)
(* handlers of main.py that change it, with the crud.py helpers they      *)
(* call.  Every query of the handlers filters on the user's id, so rows   *)
(* of different users never interact; the model keeps the rows of one     *)
(* user.                                                                   *)
(*                                                                         *)
(* src/ holds files of different revisions.  main.py and crud.py use two  *)
(* declarations that src/models.py does not have:                         *)
(*   - StageEnum.DISCOVERING_UNIVERSITIES (main.py:414); models.py:9-14   *)
(*     has no such member, the attribute lookup raises AttributeError,    *)
(*     which onboarding's "except Exception" (main.py:431-440) turns into *)
(*     a 400 after the profile was committed;                             *)
(*   - Task.university_id (crud.py:239, main.py:140); models.py:61-70 has *)
(*     no such column, Task(...) raises TypeError, which                   *)
(*     generate_university_tasks (crud.py:288-291) swallows: rollback,    *)
(*     return [].                                                          *)
(* modelsRev fixes, per behaviour, which declarations are loaded: "src"   *)
(* is models.py as it is under src/, "callers" the declarations main.py   *)
(* and crud.py are written against.  A property confirmed here holds of   *)
(* both.                                                                   *)
(*                                                                         *)
(* The pure functions (scoring.score_university,                           *)
(* scoring.categorize_universities, crud.normalize_status,                 *)
(* crud.calculate_profile_strength, database.normalize_country,            *)
(* database.query_universities over a given table,                         *)
(* classifier.classify_universities, the tier loop of GET /recommendations,*)
(* service.process_counseling) are operators, each applied by the actions  *)
(* of a specification of its own (SpecScore, SpecCategorize, SpecStatus,   *)
(* SpecStrength, SpecCountry, SpecQuery, SpecTiers, SpecCounsel) whose     *)
(* initial states are the arguments.                                       *)
(* Strings the code trims or lower-cases are sequences of characters, a    *)
(* value that may be None is None or Some(v), decimals are scaled          *)
(* integers, and the float products budget * 0.7 and budget * 1.2 are      *)
(* computed as IEEE-754 doubles round them.                                *)
(***************************************************************************)
EXTENDS Integers, Sequences, FiniteSets, TLC

\* ---------------------------------------------------------------- bounds
NumUniversities == 2
MaxPool == 1
MaxTaskPick == 1

Universities == 1..NumUniversities
TaskPicks == 1..MaxTaskPick

\* ------------------------------------------------------- program constants
\* models.py:9-14
StageEnum == {"ONBOARDING", "DISCOVERY", "SHORTLIST", "LOCKED", "APPLICATION"}
\* no UserState row yet (created lazily, crud.py:59-79)
NoState == "NONE"
\* main.py:584, main.py:837
valid_categories == {"DREAM", "TARGET", "SAFE"}
\* a value outside valid_categories, and the absent query parameter
InvalidCategory == "PLATINUM"
NoCategory == "NULL"
\* main.py:414: the stage written at final submit; the member's value in
\* the revision main.py is written against is the DISCOVERY stage of the
\* pipeline (spec section 4.6)
DISCOVERING_UNIVERSITIES == "DISCOVERY"
ModelsRevs == {"src", "callers"}

\* crud.py:234-277: titles of the application-prep template, in order
tasks_data ==
  << "Complete Statement of Purpose",
     "Gather Recommendation Letters",
     "Prepare Official Transcripts",
     "Check Application Deadlines",
     "Prepare Financial Documents",
     "Complete Standardized Tests",
     "Prepare Resume/CV" >>

VARIABLES
  modelsRev,          \* which model declarations are loaded
  profile_exists,     \* a UserProfile row with the user's email exists
  profile_complete,   \* UserProfile.profile_complete
  current_stage,      \* UserState.current_stage, NoState if no row
  shortlists,         \* the user's Shortlist rows
  tasks,              \* the user's Task rows, in id order
  ever_shortlisted,   \* history: a Shortlist row was created at some time
  resp,               \* the response of the last completed request
  repeated,           \* history: the last request repeated the successful
                      \* lock request completed just before it
  sess,               \* the database sessions of the lock requests in flight
  arg_gpa,            \* scoring.py: the gpa passed, in tenths (85 is 8.5)
  arg_budget,         \* scoring.py: the budget passed, whole USD
  arg_university,     \* score_university: the university dict passed
  ret_score,          \* score_university: its outcome
  arg_universities,   \* categorize_universities: the list of dicts passed
  ret_categorized,    \* categorize_universities: its outcome
  arg_profile,        \* calculate_profile_strength: the profile passed
  ret_strength,       \* calculate_profile_strength: its outcome
  arg_status,         \* normalize_status: the status passed
  ret_normalized,     \* normalize_status: its outcome
  arg_country,        \* normalize_country: the country passed
  ret_country,        \* normalize_country: its outcome
  arg_query,          \* query_universities: the table and the criteria passed
  ret_universities,   \* query_universities: its outcome
  ret_classified,     \* classify_universities: its outcome
  ret_recommended,    \* GET /recommendations: the tiers of its response
  arg_counsel,        \* process_counseling: the request passed
  ret_counsel         \* process_counseling: its outcome

dbvars == << modelsRev, profile_exists, profile_complete, current_stage,
             shortlists, tasks, ever_shortlisted, resp, repeated, sess >>
scoringvars == << arg_gpa, arg_budget, arg_university, ret_score,
                 arg_universities, ret_categorized >>
strengthvars == << arg_profile, ret_strength >>
statusvars == << arg_status, ret_normalized >>
countryvars == << arg_country, ret_country >>
queryvars == << arg_query, ret_universities >>
tiervars == << ret_classified, ret_recommended >>
counselvars == << arg_counsel, ret_counsel >>
repovars == << countryvars, queryvars, tiervars, counselvars >>
purevars == << scoringvars, strengthvars, statusvars, repovars >>

vars == << dbvars, purevars >>

\* ------------------------------------------------------- python values
\* None (SQL NULL) and a present value v, for a field that may hold either
None == << >>
Some(v) == << v >>
\* dict.get(key, default)
get(d, key, default) == IF key \in DOMAIN d THEN d[key] ELSE default

\* the outcome variables before the function is called
NotScored == [called |-> FALSE, raised |-> FALSE, value |-> 0]
NotCategorized ==
  [called |-> FALSE, raised |-> FALSE, dream |-> << >>, target |-> << >>, safe |-> << >>]
NotCalculated ==
  [called |-> FALSE, overall |-> 0, sections |-> << >>, next_actions |-> << >>]
NotNormalized == [called |-> FALSE, value |-> ""]
NoCountry == [called |-> FALSE, value |-> << >>, again |-> FALSE, second |-> << >>]
NotQueried == [called |-> FALSE, raised |-> FALSE, rows |-> << >>]
NotClassified == [called |-> FALSE, raised |-> FALSE, dream |-> << >>, target |-> << >>, safe |-> << >>]
NotCounselled ==
  [called |-> FALSE, next_stage |-> "", missing_fields |-> << >>, recommendations |-> 0]

\* no call of the scoring functions, of calculate_profile_strength, of
\* normalize_status is being looked at
ScoringIdle ==
  /\ arg_gpa = 0 /\ arg_budget = 0
  /\ arg_university = [id |-> 0] /\ ret_score = NotScored
  /\ arg_universities = << >> /\ ret_categorized = NotCategorized
StrengthIdle == arg_profile = [id |-> 0] /\ ret_strength = NotCalculated
StatusIdle == arg_status = None /\ ret_normalized = NotNormalized
\* no call of normalize_country, of query_universities, of the classifiers,
\* of process_counseling is being looked at
CountryIdle == arg_country = None /\ ret_country = NoCountry
QueryIdle == arg_query = [id |-> 0] /\ ret_universities = NotQueried
TierIdle == ret_classified = NotClassified /\ ret_recommended = NotClassified
CounselIdle == arg_counsel = [id |-> 0] /\ ret_counsel = NotCounselled
RepoIdle == CountryIdle /\ QueryIdle /\ TierIdle /\ CounselIdle

\* two lock requests handled by two server processes on one database
Requests == {1, 2}
\* main.py:101-107: one session per request; nothing pending
IdleSession ==
  [endpoint |-> "none", university_id |-> 0, pc |-> "done",
   unlocked |-> {}, loaded |-> FALSE, deleted |-> 0]

\* ------------------------------------------------------------ responses
Resp(op, status, error, uid, n) ==
  [op |-> op, status |-> status, error |-> error, university_id |-> uid, n |-> n]

\* the three lock endpoints: POST /university/lock, PATCH /shortlist/lock,
\* PATCH /shortlist with locked=true
LockOps == {"lock", "lock_shortlist", "patch_lock"}

\* a request completes with response r
Respond(r) ==
  /\ resp' = r
  /\ repeated' = (r.op \in LockOps /\ r.status = 200 /\ r = resp)

\* ------------------------------------------------------------------ crud
\* crud.py:59-79
get_or_create_user_state(stage, default_stage) ==
  IF stage # NoState THEN stage ELSE default_stage

\* crud.py:81-95 (upsert: update the row or create it)
update_user_stage(stage, new_stage) == new_stage

HasEntry(sl, u) == \E s \in sl : s.university_id = u
\* the .first() of the (user_id, university_id) filter
Entry(sl, u) == CHOOSE s \in sl : s.university_id = u

\* add_to_shortlist without the lookup of crud.py:110-122
add_to_shortlist_unchecked(sl, u, category) ==
  sl \cup {[university_id |-> u,
            category |-> IF category # NoCategory THEN category ELSE "TARGET",
            locked |-> FALSE]}

\* crud.py:106-138
add_to_shortlist(sl, u, category) ==
  IF HasEntry(sl, u)
    THEN IF category # NoCategory
           THEN (sl \ {Entry(sl, u)}) \cup {[Entry(sl, u) EXCEPT !.category = category]}
           ELSE sl
    ELSE sl \cup {[university_id |-> u,
                   category |-> IF category # NoCategory THEN category ELSE "TARGET",
                   locked |-> FALSE]}

\* crud.py:144-149, main.py:873-878: bulk UPDATE ... SET locked = false
UnlockAll(sl) == {[s EXCEPT !.locked = FALSE] : s \in sl}

\* lock_university without the bulk unlock of crud.py:144-149
lock_university_keep_others(sl, u) ==
  IF HasEntry(sl, u)
    THEN {IF s.university_id = u THEN [s EXCEPT !.locked = TRUE] ELSE s : s \in sl}
    ELSE sl

\* lock_university whose bulk unlock outlives the ValueError of crud.py:160
lock_university_unlock_kept(sl, u) ==
  IF HasEntry(sl, u)
    THEN {IF s.university_id = u THEN [s EXCEPT !.locked = TRUE] ELSE s : s \in UnlockAll(sl)}
    ELSE UnlockAll(sl)

\* crud.py:140-169 (the caller has checked, or the ValueError path applies)
lock_university(sl, u) ==
  IF HasEntry(sl, u)
    THEN {IF s.university_id = u THEN [s EXCEPT !.locked = TRUE] ELSE s : s \in UnlockAll(sl)}
    ELSE sl   \* ValueError: rollback undoes the bulk update

\* crud.py:171-178
get_locked_university(sl) == {s \in sl : s.locked}

\* the template of crud.py:234-277 bound to university u
template(u) ==
  [i \in 1..Len(tasks_data) |->
     [title |-> tasks_data[i], stage |-> "APPLICATION",
      university_id |-> u, completed |-> FALSE]]

\* generate_university_tasks without the delete of crud.py:231
generate_university_tasks_append(ts, u, rev) ==
  IF rev = "callers" THEN ts \o template(u) ELSE ts

\* crud.py:223-291
generate_university_tasks(ts, u, rev) ==
  IF rev = "callers"
    THEN template(u)
    ELSE ts   \* TypeError in Task(...): rollback undoes the delete, returns []

\* crud.py:293-301
clear_user_tasks(ts) == << >>

\* crud.py:211-214
complete_task(ts, task_id) ==
  IF task_id \in 1..Len(ts) THEN [ts EXCEPT ![task_id].completed = TRUE] ELSE ts

\* ------------------------------------------------------------------ Init
Init ==
  /\ modelsRev \in ModelsRevs
  /\ profile_exists = FALSE
  /\ profile_complete = FALSE
  /\ current_stage = NoState
  /\ shortlists = {}
  /\ tasks = << >>
  /\ ever_shortlisted = FALSE
  /\ resp = Resp("none", 0, "", 0, 0)
  /\ repeated = FALSE
  /\ sess = [r \in Requests |-> IdleSession]
  /\ ScoringIdle /\ StrengthIdle /\ StatusIdle /\ RepoIdle

\* the stored state while a pure function is looked at on its own
DbIdle ==
  /\ modelsRev = "src"
  /\ profile_exists = FALSE
  /\ profile_complete = FALSE
  /\ current_stage = NoState
  /\ shortlists = {}
  /\ tasks = << >>
  /\ ever_shortlisted = FALSE
  /\ resp = Resp("none", 0, "", 0, 0)
  /\ repeated = FALSE
  /\ sess = [r \in Requests |-> IdleSession]

\* --------------------------------------------------------------- handlers
\* POST /onboarding, main.py:370-440
onboarding(final_submit) ==
  LET complete == IF profile_exists THEN profile_complete \/ final_submit
                                    ELSE final_submit
  IN /\ profile_exists' = TRUE
     /\ profile_complete' = complete
     /\ IF complete
          THEN IF modelsRev = "src"
                 \* main.py:414 raises after the commit of main.py:403/409
                 THEN /\ current_stage' = current_stage
                      /\ Respond(Resp("onboarding", 400, "ONBOARDING_FAILED", 0, 0))
                 ELSE /\ current_stage' = update_user_stage(current_stage, DISCOVERING_UNIVERSITIES)
                      /\ Respond(Resp("onboarding", 200, "", 0, 0))
          ELSE /\ current_stage' = get_or_create_user_state(current_stage, "ONBOARDING")
               /\ Respond(Resp("onboarding", 200, "", 0, 0))
     /\ UNCHANGED << purevars, modelsRev, sess, shortlists, tasks, ever_shortlisted >>

\* the state of the universities repository during a request: "up",
\* "down" (a statement raises, which query_universities catches,
\* database.py:264-267) or "unset" (no DATABASE_URL: get_db_connection
\* raises, database.py:44-45 and 109)
RepoStates == {"up", "down", "unset"}

\* main.py:225-232 with database.py:264-267: the number of rows the handler
\* goes on with, pool being the number the query selects
unis_despite_failure(pool, repo) == pool
unis_or_empty(pool, repo) == IF repo = "up" THEN pool ELSE 0

\* GET /recommendations, main.py:208-272 (the route registered first);
\* pool is the number of rows the query selects, repo the state of the
\* repository; n of the response is the count of the three tier lists
get_deterministic_recommendations(pool, repo) ==
  /\ Respond(IF profile_exists /\ profile_complete
               THEN Resp("recommendations", 200, "", 0, unis_or_empty(pool, repo))
               ELSE Resp("recommendations", 200, "", 0, 0))
  /\ UNCHANGED << purevars, modelsRev, sess, profile_exists, profile_complete, current_stage,
                  shortlists, tasks, ever_shortlisted >>

\* POST /shortlist, main.py:570-613
add_shortlist(university_id, category) ==
  /\ IF category \notin valid_categories
       THEN /\ Respond(Resp("add", 400, "INVALID_CATEGORY", university_id, 0))
            /\ UNCHANGED << shortlists, ever_shortlisted >>
       ELSE IF ~profile_exists
         THEN /\ Respond(Resp("add", 404, "USER_NOT_FOUND", university_id, 0))
              /\ UNCHANGED << shortlists, ever_shortlisted >>
         ELSE /\ shortlists' = add_to_shortlist(shortlists, university_id, category)
              /\ ever_shortlisted' = TRUE
              /\ Respond(Resp("add", 200, "", university_id, 0))
  /\ UNCHANGED << purevars, modelsRev, sess, profile_exists, profile_complete, current_stage, tasks >>

\* main.py:668-678
category_map(category) ==
  CASE category = "Dream" -> "DREAM"
    [] category = "Target" -> "TARGET"
    [] category = "Safe" -> "SAFE"
    [] category = "General" -> "TARGET"
    [] category \in valid_categories -> category
    [] OTHER -> "TARGET"

\* POST /shortlist/add, main.py:615-706; persisted is false when a
\* statement of the request raises (crud.add_to_shortlist rolls back and
\* re-raises, crud.py:135-138), which main.py:699-706 answers with success
add_shortlist_alt(university_id, category, persisted) ==
  /\ IF ~persisted
       THEN /\ Respond(Resp("add_alt", 200, "", university_id, 0))
            /\ UNCHANGED << shortlists, ever_shortlisted >>
       ELSE IF ~profile_exists
       THEN /\ Respond(Resp("add_alt", 400, "USER_NOT_FOUND", university_id, 0))
            /\ UNCHANGED << shortlists, ever_shortlisted >>
       ELSE /\ shortlists' = add_to_shortlist(shortlists, university_id, category_map(category))
            /\ ever_shortlisted' = TRUE
            /\ Respond(Resp("add_alt", 200, "", university_id, 0))
  /\ UNCHANGED << purevars, modelsRev, sess, profile_exists, profile_complete, current_stage, tasks >>

\* removal with the lock check of main.py:782 dropped
removal_always_allowed(entry) == TRUE

\* main.py:782: a locked entry may not be removed
removal_allowed(entry) == ~entry.locked

\* POST /shortlist/remove, main.py:708-820
remove_shortlist(university_id) ==
  /\ IF ~profile_exists
       THEN /\ Respond(Resp("remove", 400, "USER_NOT_FOUND", university_id, 0))
            /\ UNCHANGED << shortlists, current_stage, tasks >>
       ELSE IF ~HasEntry(shortlists, university_id)
         THEN /\ Respond(Resp("remove", 404, "NOT_IN_SHORTLIST", university_id, 0))
              /\ UNCHANGED << shortlists, current_stage, tasks >>
         ELSE IF ~removal_allowed(Entry(shortlists, university_id))
           THEN \* main.py:782-793
                /\ tasks' = clear_user_tasks(tasks)
                /\ Respond(Resp("remove", 400, "UNIVERSITY_LOCKED", university_id, 0))
                /\ UNCHANGED << shortlists, current_stage >>
           ELSE \* main.py:795-812
                /\ shortlists' = shortlists \ {Entry(shortlists, university_id)}
                /\ current_stage' = IF shortlists' = {}
                                      THEN update_user_stage(current_stage, "DISCOVERY")
                                      ELSE current_stage
                /\ Respond(Resp("remove", 200, "", university_id, 0))
                /\ UNCHANGED tasks
  /\ UNCHANGED << purevars, modelsRev, sess, profile_exists, profile_complete, ever_shortlisted >>

\* PATCH /shortlist, main.py:822-895; the locked query parameter is
\* absent ("NULL"), "true" or "false"
update_shortlist(university_id, category, locked) ==
  /\ IF category # NoCategory /\ category \notin valid_categories
       THEN /\ Respond(Resp("patch", 400, "INVALID_CATEGORY", university_id, 0))
            /\ UNCHANGED << shortlists, current_stage >>
       ELSE IF ~profile_exists
         THEN /\ Respond(Resp("patch", 404, "USER_NOT_FOUND", university_id, 0))
              /\ UNCHANGED << shortlists, current_stage >>
         ELSE IF ~HasEntry(shortlists, university_id)
           THEN /\ Respond(Resp("patch", 404, "SHORTLIST_NOT_FOUND", university_id, 0))
                /\ UNCHANGED << shortlists, current_stage >>
           ELSE LET base == IF locked = "true" THEN UnlockAll(shortlists) ELSE shortlists
                    e == Entry(base, university_id)
                    e1 == IF category # NoCategory THEN [e EXCEPT !.category = category] ELSE e
                    e2 == IF locked # "NULL" THEN [e1 EXCEPT !.locked = (locked = "true")] ELSE e1
                IN /\ shortlists' = (base \ {e}) \cup {e2}
                   /\ current_stage' = IF locked = "true"
                                         THEN update_user_stage(current_stage, "LOCKED")
                                         ELSE current_stage
                   /\ Respond(Resp(IF locked = "true" THEN "patch_lock"
                                   ELSE IF locked = "false" THEN "patch_unlock" ELSE "patch",
                                   200, "", university_id, 0))
  /\ UNCHANGED << purevars, modelsRev, sess, profile_exists, profile_complete, tasks, ever_shortlisted >>

\* PATCH /shortlist/lock, main.py:897-932
lock_shortlist(university_id) ==
  /\ IF ~profile_exists
       THEN /\ Respond(Resp("lock_shortlist", 404, "USER_NOT_FOUND", university_id, 0))
            /\ UNCHANGED << shortlists, current_stage >>
       ELSE IF ~HasEntry(shortlists, university_id)
         THEN \* ValueError of crud.py:160, answered by main.py:926-927
              /\ shortlists' = lock_university(shortlists, university_id)
              /\ Respond(Resp("lock_shortlist", 404, "LOCK_FAILED", university_id, 0))
              /\ UNCHANGED current_stage
         ELSE /\ shortlists' = lock_university(shortlists, university_id)
              /\ current_stage' = update_user_stage(current_stage, "LOCKED")
              /\ Respond(Resp("lock_shortlist", 200, "", university_id, 0))
  /\ UNCHANGED << purevars, modelsRev, sess, profile_exists, profile_complete, tasks, ever_shortlisted >>

\* POST /university/lock, main.py:934-1021
lock_university_for_application(university_id) ==
  /\ IF ~profile_exists
       THEN /\ Respond(Resp("lock", 400, "USER_NOT_FOUND", university_id, 0))
            /\ UNCHANGED << shortlists, current_stage, tasks >>
       ELSE IF ~HasEntry(shortlists, university_id)
         THEN /\ Respond(Resp("lock", 400, "NOT_IN_SHORTLIST", university_id, 0))
              /\ UNCHANGED << shortlists, current_stage, tasks >>
         ELSE /\ shortlists' = lock_university(shortlists, university_id)
              /\ current_stage' = update_user_stage(current_stage, "LOCKED")
              /\ tasks' = generate_university_tasks(tasks, university_id, modelsRev)
              \* tasks_generated: len of the list generate_university_tasks returns
              /\ Respond(Resp("lock", 200, "", university_id,
                              IF modelsRev = "callers" THEN Len(tasks_data) ELSE 0))
  /\ UNCHANGED << purevars, modelsRev, sess, profile_exists, profile_complete, ever_shortlisted >>

\* POST /tasks/{task_id}/complete, main.py:309-313
complete_task_endpoint(task_id) ==
  /\ tasks' = complete_task(tasks, task_id)
  /\ Respond(Resp("complete_task", 200, "", 0, task_id))
  /\ UNCHANGED << purevars, modelsRev, sess, profile_exists, profile_complete, current_stage,
                  shortlists, ever_shortlisted >>

\* POST /counsel, main.py:1023-1231: the only stored effect is the lazy
\* creation of the UserState row (main.py:1057)
counsel ==
  /\ current_stage' = IF profile_exists /\ profile_complete
                        THEN get_or_create_user_state(current_stage, "ONBOARDING")
                        ELSE current_stage
  /\ Respond(Resp("counsel", 200, "", 0, 0))
  /\ UNCHANGED << purevars, modelsRev, sess, profile_exists, profile_complete, shortlists, tasks,
                  ever_shortlisted >>

\* inputs
PostCategories == {"TARGET", InvalidCategory}
AltCategories == {"Dream", "General", InvalidCategory}
\* PATCH /shortlist: (category, locked) pairs
PatchInputs ==
  { << NoCategory, "true" >>, << NoCategory, "false" >>, << "DREAM", "NULL" >>,
    << "DREAM", "true" >>, << InvalidCategory, "NULL" >> }

Next ==
  \/ \E f \in BOOLEAN : onboarding(f)
  \/ \E n \in 0..MaxPool, repo \in RepoStates : get_deterministic_recommendations(n, repo)
  \/ \E u \in Universities, c \in PostCategories : add_shortlist(u, c)
  \/ \E u \in Universities, c \in AltCategories, persisted \in BOOLEAN :
       add_shortlist_alt(u, c, persisted)
  \/ \E u \in Universities : remove_shortlist(u)
  \/ \E u \in Universities, i \in PatchInputs : update_shortlist(u, i[1], i[2])
  \/ \E u \in Universities : lock_shortlist(u)
  \/ \E u \in Universities : lock_university_for_application(u)
  \/ \E t \in TaskPicks : complete_task_endpoint(t)
  \/ counsel

Spec == Init /\ [][Next]_vars

\* ------------------------------------------------- interleaved lock requests
\* Each request has its own session (main.py:101-107) and so its own
\* transaction.  The handlers are coroutines that never await between their
\* database calls, so one server process runs them one after the other; the
\* steps below interleave when requests are served by different processes
\* on the same database.  Isolation is READ COMMITTED: a statement reads
\* what is committed when it runs (and its own transaction's writes), an
\* UPDATE or DELETE waits for a row another open transaction has written.
\*   POST /university/lock, PATCH /shortlist/lock:
\*     start -bulk unlock-> unlocked -select-> selected -commit lock-> locked
\*     -stage-> staged (done for PATCH /shortlist/lock) -delete-> deleted
\*     -insert-> done
\*   PATCH /shortlist locked=true:
\*     start -select-> selected -bulk unlock-> unlocked -stage (commits the
\*     unlock)-> staged -commit lock-> done
Others(r) == Requests \ {r}
SetSess(r, rec) == sess' = [sess EXCEPT ![r] = rec]

\* crud.py:144-149, main.py:873-878
bulk_unlock_step(r) ==
  LET me == sess[r]
      rows == {s.university_id : s \in get_locked_university(shortlists)}
  IN /\ me.pc = IF me.endpoint = "patch_lock" THEN "selected" ELSE "start"
     /\ me.endpoint \in LockOps
     /\ \A o \in Others(r) : sess[o].unlocked \cap rows = {}
     /\ SetSess(r, [me EXCEPT !.unlocked = rows, !.pc = "unlocked"])
     /\ UNCHANGED << purevars, modelsRev, profile_exists, profile_complete, current_stage,
                     shortlists, tasks, ever_shortlisted, resp, repeated >>

\* crud.py:152-160, main.py:854-865.  POST /university/lock has loaded the
\* entry before (main.py:980-985): the session keeps that object, which the
\* bulk update has set to locked = False if it was locked, so the value it
\* holds is False whatever was committed since.
select_entry_step(r) ==
  LET me == sess[r]
      u == me.university_id
  IN /\ me.pc = IF me.endpoint = "patch_lock" THEN "start" ELSE "unlocked"
     /\ me.endpoint \in LockOps
     /\ IF HasEntry(shortlists, u)
          THEN SetSess(r, [me EXCEPT !.pc = "selected",
                                     !.loaded = IF u \in me.unlocked \/ me.endpoint = "lock"
                                                  THEN FALSE
                                                  ELSE Entry(shortlists, u).locked])
          ELSE \* ValueError / 404: rollback
               SetSess(r, [me EXCEPT !.pc = "done", !.unlocked = {}])
     /\ UNCHANGED << purevars, modelsRev, profile_exists, profile_complete, current_stage,
                     shortlists, tasks, ever_shortlisted, resp, repeated >>

\* the rows of sl after a transaction that set the rows of the
\* universities in off to locked = false and then, if on is a university,
\* the row of on to locked = true, has committed
Committed(sl, off, on) ==
  {IF s.university_id = on THEN [s EXCEPT !.locked = TRUE]
   ELSE IF s.university_id \in off THEN [s EXCEPT !.locked = FALSE]
   ELSE s : s \in sl}

\* crud.py:162-163, main.py:880-882: shortlist.locked = True; db.commit().
\* The flush writes the row unless the loaded value was already True (after
\* the commit of main.py:879 the object is expired and the row is written).
commit_lock_step(r) ==
  LET me == sess[r]
      u == me.university_id
      writes == me.endpoint = "patch_lock" \/ ~me.loaded
  IN /\ me.pc = IF me.endpoint = "patch_lock" THEN "staged" ELSE "selected"
     /\ me.endpoint \in LockOps
     /\ writes => \A o \in Others(r) : u \notin sess[o].unlocked
     /\ shortlists' = Committed(shortlists, me.unlocked, IF writes THEN u ELSE 0)
     /\ SetSess(r, [me EXCEPT !.unlocked = {},
                              !.pc = IF me.endpoint = "patch_lock" THEN "done" ELSE "locked"])
     /\ UNCHANGED << purevars, modelsRev, profile_exists, profile_complete, current_stage,
                     tasks, ever_shortlisted, resp, repeated >>

\* crud.py:81-95 called at main.py:879, main.py:919, main.py:1000; its
\* db.commit() also commits what the session has pending
update_stage_step(r) ==
  LET me == sess[r]
  IN /\ me.pc = IF me.endpoint = "patch_lock" THEN "unlocked" ELSE "locked"
     /\ me.endpoint \in LockOps
     /\ current_stage' = update_user_stage(current_stage, "LOCKED")
     /\ shortlists' = Committed(shortlists, me.unlocked, 0)
     /\ SetSess(r, [me EXCEPT !.unlocked = {},
                              !.pc = IF me.endpoint = "lock_shortlist" THEN "done" ELSE "staged"])
     /\ UNCHANGED << purevars, modelsRev, profile_exists, profile_complete,
                     tasks, ever_shortlisted, resp, repeated >>

\* crud.py:231: bulk DELETE of the user's tasks, not yet committed
delete_tasks_step(r) ==
  LET me == sess[r]
  IN /\ me.pc = "staged" /\ me.endpoint = "lock"
     /\ Len(tasks) > 0 =>
          \A o \in Others(r) : ~(sess[o].pc = "deleted" /\ sess[o].deleted > 0)
     /\ SetSess(r, [me EXCEPT !.deleted = Len(tasks), !.pc = "deleted"])
     /\ UNCHANGED << purevars, modelsRev, profile_exists, profile_complete, current_stage,
                     shortlists, tasks, ever_shortlisted, resp, repeated >>

\* crud.py:279-291: add the seven tasks and commit, or roll back
insert_tasks_step(r) ==
  LET me == sess[r]
  IN /\ me.pc = "deleted"
     /\ tasks' = IF modelsRev = "callers"
                   THEN SubSeq(tasks, me.deleted + 1, Len(tasks)) \o template(me.university_id)
                   ELSE tasks
     /\ SetSess(r, [me EXCEPT !.deleted = 0, !.pc = "done"])
     /\ UNCHANGED << purevars, modelsRev, profile_exists, profile_complete, current_stage,
                     shortlists, ever_shortlisted, resp, repeated >>

\* A state the sequential handlers reach: every university shortlisted,
\* none or one of them locked, and two lock requests for two different
\* universities about to run.
InitConc ==
  /\ modelsRev \in ModelsRevs
  /\ profile_exists = TRUE
  /\ profile_complete \in BOOLEAN
  /\ \E l \in Universities \cup {0} :
       /\ shortlists = {[university_id |-> u, category |-> "TARGET", locked |-> (u = l)]
                          : u \in Universities}
       /\ current_stage = IF l = 0 THEN "ONBOARDING" ELSE "LOCKED"
       /\ tasks = IF l # 0 /\ modelsRev = "callers" THEN template(l) ELSE << >>
  /\ ever_shortlisted = TRUE
  /\ resp = Resp("none", 0, "", 0, 0)
  /\ repeated = FALSE
  /\ \E e1 \in LockOps, e2 \in LockOps, u1 \in Universities, u2 \in Universities :
       /\ u1 # u2
       /\ sess = [r \in Requests |->
                    [IdleSession EXCEPT !.endpoint = IF r = 1 THEN e1 ELSE e2,
                                        !.university_id = IF r = 1 THEN u1 ELSE u2,
                                        !.pc = "start"]]
  /\ ScoringIdle /\ StrengthIdle /\ StatusIdle /\ RepoIdle

NextConc ==
  \/ \E r \in Requests : bulk_unlock_step(r)
  \/ \E r \in Requests : select_entry_step(r)
  \/ \E r \in Requests : commit_lock_step(r)
  \/ \E r \in Requests : update_stage_step(r)
  \/ \E r \in Requests : delete_tasks_step(r)
  \/ \E r \in Requests : insert_tasks_step(r)

SpecConc == InitConc /\ [][NextConc]_vars

\* ============================================================ scoring.py
\* A university dict is a record whose rank key may be absent; the rank is
\* None or Some(n), the tuition whole USD.  gpa is in tenths.
\* scoring.py:28, scoring.py:119
DefaultRank == 500
\* scoring.py:144
MaxPerCategory == 5

RECURSIVE pow2_floor(_, _)
\* the largest p * 2^i not above n
pow2_floor(n, p) == IF 2 * p <= n THEN pow2_floor(n, 2 * p) ELSE p

\* scoring.py:43: the largest integer not above the double budget * 0.7.
\* The double 0.7 is 0.7 - 0.2 * 2^-52, so the exact product is
\* 0.7 * budget - 0.2 * budget * 2^-52, rounded to 53 bits.  Where
\* 0.7 * budget is an integer N = 7k (budget = 10k), the product rounds to
\* N if 2k * 2^-52 is at most half an ulp of N, P * 2^-53 with P the
\* largest power of two not above N, and to the double below N otherwise.
floor_mul_0_7(b) ==
  IF b > 0 /\ b % 10 = 0 /\ 4 * (b \div 10) > pow2_floor(7 * (b \div 10), 1)
    THEN 7 * (b \div 10) - 1
    ELSE (7 * b) \div 10

\* scoring.py:49: the largest integer not above the double budget * 1.2.
\* The double 1.2 is 1.2 - 0.2 * 2^-52; where 1.2 * budget is an integer
\* N = 6k the error k * 2^-52 is below half an ulp of N (more than
\* 3k * 2^-53), so the product rounds to N.
floor_mul_1_2(b) == (12 * b) \div 10

\* scoring.py:8-83.  None <= 50 raises TypeError (scoring.py:29).
score_university(gpa, budget, uni) ==
  LET rank == get(uni, "rank", Some(DefaultRank))
  IN IF rank = None
       THEN [called |-> TRUE, raised |-> TRUE, value |-> 0]
       ELSE
         LET rank_score == IF rank[1] <= 50 THEN 40
                           ELSE IF rank[1] <= 100 THEN 35
                           ELSE IF rank[1] <= 200 THEN 30
                           ELSE IF rank[1] <= 300 THEN 25
                           ELSE 20
             tuition == get(uni, "estimated_tuition_usd", 0)
             budget_score == IF tuition <= floor_mul_0_7(budget) THEN 30
                             ELSE IF tuition <= budget THEN 25
                             ELSE IF tuition <= floor_mul_1_2(budget) THEN 15
                             ELSE 5
             competitiveness == get(uni, "competitiveness", "MEDIUM")
             gpa_score == IF competitiveness = "HIGH"
                            THEN IF gpa >= 85 THEN 30
                                 ELSE IF gpa >= 75 THEN 20
                                 ELSE 10
                          ELSE IF competitiveness = "MEDIUM"
                            THEN IF gpa >= 70 THEN 30
                                 ELSE IF gpa >= 60 THEN 25
                                 ELSE 15
                          ELSE IF gpa >= 60 THEN 30
                               ELSE 25
         IN [called |-> TRUE, raised |-> FALSE,
             value |-> rank_score + budget_score + gpa_score]

\* ---- score_university on its own
\* inputs: ranks on both sides of every bucket edge, absent and None;
\* tuitions at and around 70%, 100% and 120% of the budgets
ScoreRanks == {30, 50, 51, 100, 101, 200, 201, 300, 301}
ScoreTuitions == {20000, 28000, 31500, 40000, 45000, 48000, 50000, 54000, 60000}
ScoreCompetitiveness == {"HIGH", "MEDIUM", "LOW", "VERY_LOW"}
ScoreGpas == {55, 60, 70, 75, 85, 90}
ScoreBudgets == {40000, 45000}

WithRank(ds, ranks) ==
  ds \cup {("rank" :> r) @@ d : d \in ds, r \in {None} \cup {Some(n) : n \in ranks}}
WithCompetitiveness(ds, cs) ==
  ds \cup {("competitiveness" :> c) @@ d : d \in ds, c \in cs}
WithTuition(ds, ts) ==
  ds \cup {("estimated_tuition_usd" :> t) @@ d : d \in ds, t \in ts}

ScoreUniversities ==
  WithTuition(WithCompetitiveness(WithRank({[id |-> 1]}, ScoreRanks),
                                  ScoreCompetitiveness),
              ScoreTuitions)

score_university_call ==
  /\ ~ret_score.called
  /\ ret_score' = score_university(arg_gpa, arg_budget, arg_university)
  /\ UNCHANGED << dbvars, repovars, arg_gpa, arg_budget, arg_university,
                  arg_universities, ret_categorized, strengthvars, statusvars >>

InitScore ==
  /\ DbIdle /\ StrengthIdle /\ StatusIdle /\ RepoIdle
  /\ arg_gpa \in ScoreGpas
  /\ arg_budget \in ScoreBudgets
  /\ arg_university \in ScoreUniversities
  /\ ret_score = NotScored
  /\ arg_universities = << >>
  /\ ret_categorized = NotCategorized

NextScore == score_university_call

SpecScore == InitScore /\ [][NextScore]_vars

\* ---- categorize_universities
\* classification by rank alone
category_of_rank_only(uni) ==
  LET ranking_rank == get(uni, "rank", Some(DefaultRank))[1]
  IN IF ranking_rank <= 50 THEN "DREAM"
     ELSE IF ranking_rank <= 100 THEN "TARGET"
     ELSE "SAFE"

\* scoring.py:126-138: first match wins
category_of(uni) ==
  LET ranking_rank == get(uni, "rank", Some(DefaultRank))[1]
      competitiveness == get(uni, "competitiveness", "MEDIUM")
  IN IF ranking_rank <= 50 /\ competitiveness = "HIGH" THEN "DREAM"
     ELSE IF ranking_rank > 100 \/ competitiveness \in {"LOW", "VERY_LOW"} THEN "SAFE"
     ELSE IF ranking_rank <= 100 /\ competitiveness \in {"HIGH", "MEDIUM"} THEN "TARGET"
     ELSE "TARGET"

\* scoring.py:143: category.lower()
category_key(c) ==
  CASE c = "DREAM" -> "dream" [] c = "TARGET" -> "target" [] c = "SAFE" -> "safe"

\* the append without the length test of scoring.py:144
append_uncapped(target_list, uni) == Append(target_list, uni)

\* scoring.py:143-145
append_capped(target_list, uni) ==
  IF Len(target_list) < MaxPerCategory THEN Append(target_list, uni) ELSE target_list

\* list.sort keeps equal keys in their order, with reverse=True too: an
\* element goes behind every element whose score is not below its own
insert_desc(sorted, x) ==
  LET k == Cardinality({i \in DOMAIN sorted : sorted[i][2] >= x[2]})
  IN SubSeq(sorted, 1, k) \o << x >> \o SubSeq(sorted, k + 1, Len(sorted))

\* the list left as it is
sort_skipped(scored) == scored

RECURSIVE sort_desc(_)
\* scoring.py:108: scored.sort(key=lambda x: x[1], reverse=True)
sort_desc(scored) ==
  IF scored = << >> THEN << >>
  ELSE insert_desc(sort_desc(SubSeq(scored, 1, Len(scored) - 1)), scored[Len(scored)])

RECURSIVE categorize_loop(_, _)
\* scoring.py:118-147; int(score) of the integral float score is its value
categorize_loop(scored, acc) ==
  IF scored = << >> THEN acc
  ELSE LET uni == scored[1][1]
           cat == category_of(uni)
           out == ("match_percentage" :> scored[1][2]) @@ ("category" :> cat) @@ uni
       IN categorize_loop(Tail(scored),
                          [acc EXCEPT ![category_key(cat)] = append_capped(@, out)])

\* scoring.py:85-149; an exception of score_university leaves through the
\* loop of scoring.py:103-105
categorize_universities(unis, gpa, budget) ==
  LET scores == [i \in DOMAIN unis |-> score_university(gpa, budget, unis[i])]
  IN IF \E i \in DOMAIN unis : scores[i].raised
       THEN [called |-> TRUE, raised |-> TRUE,
             dream |-> << >>, target |-> << >>, safe |-> << >>]
       ELSE categorize_loop(
              sort_desc([i \in DOMAIN unis |-> << unis[i], scores[i].value >>]),
              [called |-> TRUE, raised |-> FALSE,
               dream |-> << >>, target |-> << >>, safe |-> << >>])

\* inputs.  Pools of up to MaxCandidates rows of four kinds (two DREAM
\* kinds of different score, a TARGET and an unranked SAFE kind), and
\* pools of one row over every rank and competitiveness case.
MaxCandidates == 6
PoolKinds ==
  { [rank |-> Some(30), competitiveness |-> "HIGH", estimated_tuition_usd |-> 20000],
    [rank |-> Some(45), competitiveness |-> "HIGH", estimated_tuition_usd |-> 50000],
    [rank |-> Some(80), competitiveness |-> "MEDIUM", estimated_tuition_usd |-> 35000],
    [competitiveness |-> "LOW", estimated_tuition_usd |-> 20000] }
SingleKinds ==
  WithCompetitiveness(WithRank({[estimated_tuition_usd |-> 35000]}, {30, 50, 51, 100, 101}),
                      ScoreCompetitiveness \cup {"UNKNOWN"})
PoolsOf(kinds, n) ==
  {[i \in 1..n |-> ("id" :> i) @@ f[i]] : f \in [1..n -> kinds]}
CategorizeGpas == {65, 90}
CategorizeBudgets == {30000, 40000}
\* << universities, gpa, budget >>: the one-row pools under every gpa and
\* budget, the longer pools under one
CategorizeInputs ==
  (PoolsOf(SingleKinds, 1) \X CategorizeGpas \X CategorizeBudgets)
  \cup ((UNION {PoolsOf(PoolKinds, n) : n \in 0..MaxCandidates}) \X {90} \X {40000})

categorize_universities_call ==
  /\ ~ret_categorized.called
  /\ ret_categorized' = categorize_universities(arg_universities, arg_gpa, arg_budget)
  /\ UNCHANGED << dbvars, repovars, arg_gpa, arg_budget, arg_university, ret_score,
                  arg_universities, strengthvars, statusvars >>

InitCategorize ==
  /\ DbIdle /\ StrengthIdle /\ StatusIdle /\ RepoIdle
  /\ \E in \in CategorizeInputs :
       /\ arg_universities = in[1]
       /\ arg_gpa = in[2]
       /\ arg_budget = in[3]
  /\ arg_university = [id |-> 0]
  /\ ret_score = NotScored
  /\ ret_categorized = NotCategorized

NextCategorize == categorize_universities_call

SpecCategorize == InitCategorize /\ [][NextCategorize]_vars

\* ================================================= crud.py: normalize_status
\* A str is the sequence of its characters; status is None or Some(str).
Uppercase == << "A", "B", "C", "D", "E", "F", "G", "H", "I", "J", "K", "L", "M", "N", "O", "P", "Q", "R", "S", "T", "U", "V", "W", "X", "Y", "Z" >>
Lowercase == << "a", "b", "c", "d", "e", "f", "g", "h", "i", "j", "k", "l", "m", "n", "o", "p", "q", "r", "s", "t", "u", "v", "w", "x", "y", "z" >>
\* characters str.strip() removes
Whitespace == {" ", "\t", "\n"}

lower_char(c) ==
  IF \E i \in DOMAIN Uppercase : Uppercase[i] = c
    THEN Lowercase[CHOOSE i \in DOMAIN Uppercase : Uppercase[i] = c]
    ELSE c
upper_char(c) ==
  IF \E i \in DOMAIN Lowercase : Lowercase[i] = c
    THEN Uppercase[CHOOSE i \in DOMAIN Lowercase : Lowercase[i] = c]
    ELSE c

\* the string compared as it was written
keep_case(s) == s

\* str.lower()
lower(s) == [i \in DOMAIN s |-> lower_char(s[i])]

RECURSIVE lstrip(_)
lstrip(s) == IF s # << >> /\ s[1] \in Whitespace THEN lstrip(Tail(s)) ELSE s
RECURSIVE rstrip(_)
rstrip(s) ==
  IF s # << >> /\ s[Len(s)] \in Whitespace THEN rstrip(SubSeq(s, 1, Len(s) - 1)) ELSE s
\* str.strip()
strip(s) == rstrip(lstrip(s))

\* crud.py:315
completed_variations ==
  { << "c", "o", "m", "p", "l", "e", "t", "e", "d" >>,
    << "d", "o", "n", "e" >>,
    << "r", "e", "a", "d", "y" >>,
    << "f", "i", "n", "i", "s", "h", "e", "d" >> }
\* crud.py:319
in_progress_variations ==
  { << "i", "n", " ", "p", "r", "o", "g", "r", "e", "s", "s" >>,
    << "i", "n", "_", "p", "r", "o", "g", "r", "e", "s", "s" >>,
    << "d", "r", "a", "f", "t" >>,
    << "d", "r", "a", "f", "t", "i", "n", "g" >>,
    << "s", "t", "a", "r", "t", "e", "d" >>,
    << "p", "l", "a", "n", "n", "i", "n", "g" >> }
\* crud.py:323
not_started_variations ==
  { << "n", "o", "t", " ", "s", "t", "a", "r", "t", "e", "d" >>,
    << "n", "o", "t", "_", "s", "t", "a", "r", "t", "e", "d" >>,
    << "p", "e", "n", "d", "i", "n", "g" >>,
    << "t", "o", "d", "o" >>,
    << "n", "o", "n", "e" >> }

\* crud.py:304-328
normalize_status(st) ==
  IF st = None \/ st[1] = << >> \/ strip(st[1]) = << >>
    THEN "NOT_STARTED"
    ELSE LET status_lower == strip(lower(st[1]))
         IN IF status_lower \in completed_variations THEN "COMPLETED"
            ELSE IF status_lower \in in_progress_variations THEN "IN_PROGRESS"
            ELSE IF status_lower \in not_started_variations THEN "NOT_STARTED"
            ELSE "IN_PROGRESS"

\* inputs: None, and every listed word, the empty string and two words of
\* no list, as written, in capitals and capitalized, between up to MaxPad
\* whitespace characters on each side
MaxPad == 1
PadChars == {" ", "\t"}
Pads == UNION {[1..k -> PadChars] : k \in 0..MaxPad}
upper(s) == [i \in DOMAIN s |-> upper_char(s[i])]
capitalize(s) == [i \in DOMAIN s |-> IF i = 1 THEN upper_char(s[i]) ELSE s[i]]
UnlistedWords ==
  { << "s", "u", "b", "m", "i", "t", "t", "e", "d" >>,
    << "n", "/", "a" >> }
StatusWords ==
  completed_variations \cup in_progress_variations \cup not_started_variations
    \cup UnlistedWords \cup {<< >>}
StatusInputs ==
  {None} \cup {Some(l \o w \o r) :
                 l \in Pads, r \in Pads,
                 w \in StatusWords \cup {upper(x) : x \in StatusWords}
                                   \cup {capitalize(x) : x \in StatusWords}}

normalize_status_call ==
  /\ ~ret_normalized.called
  /\ ret_normalized' = [called |-> TRUE, value |-> normalize_status(arg_status)]
  /\ UNCHANGED << dbvars, repovars, scoringvars, strengthvars, arg_status >>

InitStatus ==
  /\ DbIdle /\ ScoringIdle /\ StrengthIdle /\ RepoIdle
  /\ arg_status \in StatusInputs
  /\ ret_normalized = NotNormalized

NextStatus == normalize_status_call

SpecStatus == InitStatus /\ [][NextStatus]_vars

\* ===================================== crud.py: calculate_profile_strength
\* A profile is a record of its columns, each None or Some(value); a
\* string column holds a character sequence, gpa is in hundredths.
\* crud.py:357, 373, 527: "x and x > 0"
positive(x) == x # None /\ x[1] > 0
\* crud.py:365, 488, 534: "x and x.strip()"
nonblank(x) == x # None /\ x[1] # << >> /\ strip(x[1]) # << >>

\* an exam or SOP status counted half whatever it is, unless not started
status_points_half(norm, full, half) ==
  IF norm = "NOT_STARTED" THEN 0 ELSE half

\* crud.py:406-414, 418-426, 454-462
status_points(norm, full, half) ==
  IF norm = "COMPLETED" THEN full
  ELSE IF norm = "IN_PROGRESS" THEN half
  ELSE 0

\* the last three suggestions kept instead of the first three
limit_actions_last(next_actions) ==
  SubSeq(next_actions,
         IF Len(next_actions) < 3 THEN 1 ELSE Len(next_actions) - 2,
         Len(next_actions))

\* crud.py:568: next_actions[:3]
limit_actions(next_actions) ==
  SubSeq(next_actions, 1, IF Len(next_actions) < 3 THEN Len(next_actions) ELSE 3)

\* list.append under a condition
append_if(cond, action) == IF cond THEN << action >> ELSE << >>

\* crud.py:331-569; round(total_score, 1) of the int total is the total
calculate_profile_strength(p) ==
  LET ielts_normalized == normalize_status(p.ielts_status)
      gre_normalized == normalize_status(p.gre_gmat_status)
      sop_normalized == normalize_status(p.sop_status)
      academics_score == (IF positive(p.gpa) THEN 15 ELSE 0)
                         + (IF nonblank(p.degree) THEN 10 ELSE 0)
                         + (IF positive(p.graduation_year) THEN 5 ELSE 0)
      academics_status == IF academics_score = 0 THEN "missing"
                          ELSE IF academics_score >= 25 THEN "strong"
                          ELSE IF academics_score >= 15 THEN "partial"
                          ELSE "weak"
      exams_score == status_points(ielts_normalized, 12, 6)
                     + status_points(gre_normalized, 13, 6)
      exams_status == IF exams_score = 0 THEN "missing"
                      ELSE IF exams_score >= 20 THEN "complete"
                      ELSE IF exams_score >= 10 THEN "partial"
                      ELSE "weak"
      sop_score == status_points(sop_normalized, 20, 10)
      sop_status == IF sop_score = 0 THEN "missing"
                    ELSE IF sop_score >= 15 THEN "ready"
                    ELSE "drafting"
      documents_score == IF nonblank(p.funding_plan) THEN 15 ELSE 0
      documents_status == IF documents_score = 0 THEN "missing"
                          ELSE IF documents_score >= 10 THEN "complete"
                          ELSE "partial"
      preferences_score ==
        (IF p.preferred_countries # None /\ Len(p.preferred_countries[1]) > 0
           THEN 4 ELSE 0)
        + (IF positive(p.budget_per_year) THEN 3 ELSE 0)
        + (IF nonblank(p.field_of_study) THEN 3 ELSE 0)
      preferences_status == IF preferences_score = 0 THEN "missing"
                            ELSE IF preferences_score >= 8 THEN "complete"
                            ELSE "partial"
      next_actions ==
        append_if(~positive(p.gpa), "Add your GPA")
        \o append_if(~nonblank(p.degree), "Add your degree")
        \o append_if(ielts_normalized = "NOT_STARTED", "Complete IELTS exam")
        \o append_if(gre_normalized = "NOT_STARTED", "Complete GRE/GMAT exam")
        \o append_if(sop_normalized = "NOT_STARTED", "Complete your SOP")
        \o append_if(~nonblank(p.funding_plan), "Define your funding plan")
        \o append_if(~(p.preferred_countries # None /\ Len(p.preferred_countries[1]) > 0),
                     "Select preferred countries")
  IN [called |-> TRUE,
      overall |-> academics_score + exams_score + sop_score
                  + documents_score + preferences_score,
      sections |->
        [academics |-> [score |-> academics_score, max |-> 30, status |-> academics_status],
         exams |-> [score |-> exams_score, max |-> 25, status |-> exams_status],
         sop |-> [score |-> sop_score, max |-> 20, status |-> sop_status],
         documents |-> [score |-> documents_score, max |-> 15, status |-> documents_status],
         preferences |-> [score |-> preferences_score, max |-> 10,
                          status |-> preferences_status]],
      next_actions |-> limit_actions(next_actions)]

\* inputs: every column absent, empty or blank, and present
ProfileStatuses ==
  { None,
    Some(<< "C", "o", "m", "p", "l", "e", "t", "e", "d" >>),
    Some(<< " ", "d", "r", "a", "f", "t" >>),
    Some(<< "p", "e", "n", "d", "i", "n", "g" >>) }
Profiles ==
  [gpa : {None, Some(0), Some(920)},
   degree : {None, Some(<< " " >>), Some(<< "M", "S" >>)},
   graduation_year : {None, Some(2024)},
   ielts_status : ProfileStatuses,
   gre_gmat_status : ProfileStatuses,
   sop_status : ProfileStatuses,
   funding_plan : {Some(<< " " >>), Some(<< "l", "o", "a", "n" >>)},
   preferred_countries : {Some(<< >>), Some(<< "USA" >>)},
   budget_per_year : {None, Some(40000)},
   field_of_study : {None, Some(<< "C", "S" >>)}]

calculate_profile_strength_call ==
  /\ ~ret_strength.called
  /\ ret_strength' = calculate_profile_strength(arg_profile)
  /\ UNCHANGED << dbvars, repovars, scoringvars, statusvars, arg_profile >>

InitStrength ==
  /\ DbIdle /\ ScoringIdle /\ StatusIdle /\ RepoIdle
  /\ arg_profile \in Profiles
  /\ ret_strength = NotCalculated

NextStrength == calculate_profile_strength_call

SpecStrength == InitStrength /\ [][NextStrength]_vars

\* ============================================ database.py: normalize_country
\* A str is the sequence of its characters; country is None or Some(str).
\* The canonical names (the values of COUNTRY_MAPPING)
United_States == << "U", "n", "i", "t", "e", "d", " ", "S", "t", "a", "t", "e", "s" >>
United_Kingdom == << "U", "n", "i", "t", "e", "d", " ", "K", "i", "n", "g", "d", "o", "m" >>
Canada == << "C", "a", "n", "a", "d", "a" >>
Australia == << "A", "u", "s", "t", "r", "a", "l", "i", "a" >>
Germany == << "G", "e", "r", "m", "a", "n", "y" >>

\* database.py:11-22, the items in the order the dict holds them
COUNTRY_MAPPING ==
  << << << "U", "S", "A" >>, United_States >>,
     << << "U", "S" >>, United_States >>,
     << << "U", "n", "i", "t", "e", "d", " ", "S", "t", "a", "t", "e", "s" >>, United_States >>,
     << << "U", "K" >>, United_Kingdom >>,
     << << "U", "n", "i", "t", "e", "d", " ", "K", "i", "n", "g", "d", "o", "m" >>, United_Kingdom >>,
     << << "G", "r", "e", "a", "t", " ", "B", "r", "i", "t", "a", "i", "n" >>, United_Kingdom >>,
     << << "C", "a", "n", "a", "d", "a" >>, Canada >>,
     << << "A", "u", "s", "t", "r", "a", "l", "i", "a" >>, Australia >>,
     << << "G", "e", "r", "m", "a", "n", "y" >>, Germany >> >>

\* dict.get(key): None for a key the dict does not hold
mapping_get(key) ==
  IF \E i \in DOMAIN COUNTRY_MAPPING : COUNTRY_MAPPING[i][1] = key
    THEN Some(COUNTRY_MAPPING[CHOOSE i \in DOMAIN COUNTRY_MAPPING : COUNTRY_MAPPING[i][1] = key][2])
    ELSE None

\* database.py:35-37: the value of the first item whose lower-cased key is
\* the lower-cased text, None when the loop ends without a return
first_lower_match(text) ==
  LET hits == {i \in DOMAIN COUNTRY_MAPPING : lower(COUNTRY_MAPPING[i][1]) = lower(text)}
  IN IF hits = {} THEN None
     ELSE Some(COUNTRY_MAPPING[CHOOSE i \in hits : \A j \in hits : i <= j][2])

\* database.py:24-40
normalize_country(country) ==
  IF country = None \/ country[1] = << >>
    THEN << >>
    ELSE LET normalized == mapping_get(strip(country[1]))
             matched == first_lower_match(country[1])
         IN IF normalized # None THEN normalized[1]
            ELSE IF matched # None THEN matched[1]
            ELSE strip(country[1])

\* inputs: None, and every key of the mapping, the empty string and two
\* names the mapping does not hold, as written, in small letters and in
\* capitals, between up to MaxPad whitespace characters on each side
UnlistedCountries == { << "F", "r", "a", "n", "c", "e" >>, << "i", "n", "d", "i", "a" >> }
CountryWords ==
  {COUNTRY_MAPPING[i][1] : i \in DOMAIN COUNTRY_MAPPING} \cup UnlistedCountries \cup {<< >>}
CountryInputs ==
  {None} \cup {Some(l \o w \o r) :
                 l \in Pads, r \in Pads,
                 w \in CountryWords \cup {upper(x) : x \in CountryWords}
                                    \cup {lower(x) : x \in CountryWords}}

\* normalize_country(arg_country)
normalize_country_call ==
  /\ ~ret_country.called
  /\ ret_country' = [ret_country EXCEPT !.called = TRUE,
                                        !.value = normalize_country(arg_country)]
  /\ UNCHANGED << dbvars, scoringvars, strengthvars, statusvars, queryvars, tiervars,
                  counselvars, arg_country >>

\* normalize_country applied to the value the first call returned
normalize_country_again ==
  /\ ret_country.called /\ ~ret_country.again
  /\ ret_country' = [ret_country EXCEPT !.again = TRUE,
                                        !.second = normalize_country(Some(ret_country.value))]
  /\ UNCHANGED << dbvars, scoringvars, strengthvars, statusvars, queryvars, tiervars,
                  counselvars, arg_country >>

InitCountry ==
  /\ DbIdle /\ ScoringIdle /\ StrengthIdle /\ StatusIdle
  /\ QueryIdle /\ TierIdle /\ CounselIdle
  /\ arg_country \in CountryInputs
  /\ ret_country = NoCountry

NextCountry == normalize_country_call \/ normalize_country_again

SpecCountry == InitCountry /\ [][NextCountry]_vars

\* =========================================== database.py: query_universities
\* database.py:83
DEFAULT_COUNTRIES ==
  << << "U", "S", "A" >>, << "U", "K" >>, << "C", "a", "n", "a", "d", "a" >>, << "G", "e", "r", "m", "a", "n", "y" >>, << "A", "u", "s", "t", "r", "a", "l", "i", "a" >> >>
\* database.py:244: LIMIT of the fallback query
FallbackLimit == 10

\* text ILIKE '%pattern%' for a pattern without wildcard characters; NULL
\* ILIKE anything is not true
contains(text, pattern) ==
  \E i \in 0..(Len(text) - Len(pattern)) : SubSeq(text, i + 1, i + Len(pattern)) = pattern
ilike_any(country, patterns) ==
  /\ country # None
  /\ \E k \in DOMAIN patterns : contains(lower(country[1]), lower(patterns[k]))

\* column <= :max_budget; NULL <= anything is not true
at_most(column, max_budget) == column # None /\ column[1] <= max_budget

\* ORDER BY rank ASC NULLS LAST: every order of the rows the clause allows
\* (rows of equal rank come in any order)
rank_before(a, b) ==
  \/ b.rank = None
  \/ a.rank # None /\ b.rank # None /\ a.rank[1] <= b.rank[1]
order_by_rank(rows) ==
  {s \in [1..Cardinality(rows) -> rows] :
     /\ \A i, j \in DOMAIN s : i < j => s[i] # s[j] /\ rank_before(s[i], s[j])}
\* LIMIT n
limited(s, n) == SubSeq(s, 1, IF Len(s) < n THEN Len(s) ELSE n)

\* database.py:153-172: the patterns of the country filter (written here
\* without their % signs)
countries_list(countries) ==
  IF countries = None THEN DEFAULT_COUNTRIES
  ELSE IF "str" \in DOMAIN countries
    THEN IF countries.str = << >> THEN DEFAULT_COUNTRIES ELSE << countries.str >>
  ELSE IF countries.list = << >> THEN DEFAULT_COUNTRIES ELSE countries.list
normalized_countries(countries) ==
  LET given == countries_list(countries)
      norm == [k \in DOMAIN given |-> normalize_country(Some(given[k]))]
      kept == SelectSeq(norm, LAMBDA n : n # << >>)
  IN IF kept = << >> THEN DEFAULT_COUNTRIES ELSE kept

\* database.py:184-187
budget_filter_applied(max_budget) == max_budget # None /\ max_budget[1] > 0

\* database.py:194-207: the rows the filtered query selects
filtered(table, countries, max_budget) ==
  {row \in table :
     /\ ilike_any(row.country, normalized_countries(countries))
     /\ budget_filter_applied(max_budget)
          => at_most(row.estimated_tuition_usd, max_budget[1])}

\* database.py:116: shortlist mode
id_mode(university_ids) == university_ids # None /\ Len(university_ids) > 0

\* database.py:85-267: the results query_universities can return.  db is
\* "unset" when settings.DATABASE_URL is empty (get_db_connection raises
\* outside the try), "down" when a statement raises (caught, database.py:
\* 264-267), "up" otherwise.
query_universities(q) ==
  IF q.db = "unset" THEN {[called |-> TRUE, raised |-> TRUE, rows |-> << >>]}
  ELSE IF q.db = "down" THEN {[called |-> TRUE, raised |-> FALSE, rows |-> << >>]}
  ELSE IF id_mode(q.university_ids)
    THEN {[called |-> TRUE, raised |-> FALSE, rows |-> s] :
            s \in order_by_rank({row \in q.table :
                                   \E k \in DOMAIN q.university_ids : q.university_ids[k] = row.id})}
  ELSE LET universities == filtered(q.table, q.countries, q.max_budget)
       IN IF universities # {}
            THEN {[called |-> TRUE, raised |-> FALSE, rows |-> limited(s, q.limit)] :
                    s \in order_by_rank(universities)}
            \* database.py:231-260: the failsafe fallback
            ELSE {[called |-> TRUE, raised |-> FALSE, rows |-> limited(s, FallbackLimit)] :
                    s \in order_by_rank(q.table)}

\* inputs.  The universities table holds any of the first MaxRows rows of
\* a cycle of four: the first two of equal rank, the third without rank
\* and tuition.
MaxRows == 3
RowCountries == << Canada, United_States, Germany, United_Kingdom >>
RowRanks == << Some(20), Some(20), None, Some(10) >>
RowTuitions == << Some(25000), Some(50000), None, Some(30000) >>
TableRow(i) ==
  [id |-> i, country |-> Some(RowCountries[((i - 1) % 4) + 1]),
   rank |-> RowRanks[((i - 1) % 4) + 1],
   estimated_tuition_usd |-> RowTuitions[((i - 1) % 4) + 1]]
Tables == SUBSET {TableRow(i) : i \in 1..MaxRows}
QueryCountries ==
  { None,
    [list |-> << >>],
    [list |-> << << "C", "a", "n", "a", "d", "a" >> >>],
    [list |-> << << "u", "s", "a" >> >>],
    [list |-> << << "F", "r", "a", "n", "c", "e" >> >>],
    [list |-> << << "U", "S" >>, << " ", "c", "a", "n", "a", "d", "a" >> >>],
    [list |-> << << >> >>],
    [str |-> << "G", "e", "r", "m", "a", "n", "y" >>],
    [str |-> << >>] }
QueryBudgets == {None, Some(0), Some(30000)}
QueryLimits == {1, 20}
\* an empty list of ids is not shortlist mode either (database.py:116)
QueryIds == {None, << 1, 3 >>}
QueryInputs ==
  [table : Tables, countries : QueryCountries, max_budget : QueryBudgets,
   university_ids : QueryIds, limit : QueryLimits, db : RepoStates]

\* query_universities(countries, max_budget, university_ids, limit)
query_universities_call ==
  /\ ~ret_universities.called
  /\ ret_universities' \in query_universities(arg_query)
  /\ UNCHANGED << dbvars, scoringvars, strengthvars, statusvars, countryvars, tiervars,
                  counselvars, arg_query >>

InitQuery ==
  /\ DbIdle /\ ScoringIdle /\ StrengthIdle /\ StatusIdle
  /\ CountryIdle /\ TierIdle /\ CounselIdle
  /\ arg_query \in QueryInputs
  /\ ret_universities = NotQueried

NextQuery == query_universities_call

SpecQuery == InitQuery /\ [][NextQuery]_vars

\* ========================= classifier.py and the tiers of GET /recommendations
\* classifier.py:19-20: university["rank"], university["competitiveness"]
\* raise KeyError for an absent key; classifier.py:24: None <= 50 raises
\* TypeError
classify_raises(university) ==
  \/ "rank" \notin DOMAIN university
  \/ "competitiveness" \notin DOMAIN university
  \/ university.rank = None

\* classifier.py:3-43, for a university it does not raise on
classify_university(university) ==
  LET rank == university.rank[1]
      competitiveness == university.competitiveness
  IN IF rank <= 50 /\ competitiveness = "HIGH" THEN "dream"
     ELSE IF rank <= 100 /\ competitiveness = "MEDIUM" THEN "target"
     ELSE IF rank > 100 /\ competitiveness \in {"LOW", "VERY_LOW"} THEN "safe"
     ELSE IF rank <= 50 THEN "dream"
     ELSE IF rank <= 100 THEN "target"
     ELSE "safe"

RECURSIVE classify_loop(_, _)
\* classifier.py:66-68
classify_loop(universities, classified) ==
  IF universities = << >> THEN classified
  ELSE classify_loop(Tail(universities),
                     [classified EXCEPT ![classify_university(universities[1])] =
                                          Append(@, universities[1])])

\* classifier.py:45-70; academic_score is not read
classify_universities(universities, academic_score) ==
  IF \E i \in DOMAIN universities : classify_raises(universities[i])
    THEN [called |-> TRUE, raised |-> TRUE,
          dream |-> << >>, target |-> << >>, safe |-> << >>]
    ELSE classify_loop(universities,
                       [called |-> TRUE, raised |-> FALSE,
                        dream |-> << >>, target |-> << >>, safe |-> << >>])

\* main.py:243, 252: uni["rank"] or 999 (None and 0 are false)
RankFallback == 999
rank_or_999(uni) == IF uni.rank = None \/ uni.rank[1] = 0 THEN RankFallback ELSE uni.rank[1]

\* main.py:253-255
tier_of_rank(rank) ==
  IF rank <= 100 THEN "dream" ELSE IF rank <= 300 THEN "target" ELSE "safe"

RECURSIVE recommendation_loop(_, _)
\* main.py:238-255
recommendation_loop(unis, acc) ==
  IF unis = << >> THEN acc
  ELSE LET uni == unis[1]
           uni_obj == [id |-> uni.id,
                       rank |-> Some(rank_or_999(uni)),
                       estimated_tuition_usd |-> uni.estimated_tuition_usd,
                       competitiveness |-> get(uni, "competitiveness", "MEDIUM"),
                       match_percentage |-> 0,
                       category |-> "TARGET"]
       IN recommendation_loop(Tail(unis),
                              [acc EXCEPT ![tier_of_rank(rank_or_999(uni))] = Append(@, uni_obj)])

\* main.py:234-269: the matches of the response for the rows unis; a KeyError
\* of uni["rank"] or uni["estimated_tuition_usd"] ends in the ERROR response
\* with empty matches (main.py:270-272)
recommendation_tiers(unis) ==
  IF \E i \in DOMAIN unis : {"rank", "estimated_tuition_usd"} \ DOMAIN unis[i] # {}
    THEN [called |-> TRUE, raised |-> TRUE,
          dream |-> << >>, target |-> << >>, safe |-> << >>]
    ELSE recommendation_loop(unis,
                             [called |-> TRUE, raised |-> FALSE,
                              dream |-> << >>, target |-> << >>, safe |-> << >>])

\* inputs: pools of rows as query_universities builds them (every key
\* present, rank possibly None): every pool of up to MaxTierPool rows of
\* five kinds, and the pools of MaxPerCategory + 1 rows of one kind
MaxTierPool == 2
TierKinds ==
  { [rank |-> Some(30), competitiveness |-> "HIGH", estimated_tuition_usd |-> 20000],
    [rank |-> Some(80), competitiveness |-> "MEDIUM", estimated_tuition_usd |-> 35000],
    [rank |-> Some(150), competitiveness |-> "LOW", estimated_tuition_usd |-> 20000],
    [rank |-> Some(400), competitiveness |-> "MEDIUM", estimated_tuition_usd |-> 50000],
    [rank |-> None, competitiveness |-> "MEDIUM", estimated_tuition_usd |-> 35000] }
TierPools ==
  (UNION {PoolsOf(TierKinds, n) : n \in 0..MaxTierPool})
  \cup {[i \in 1..(MaxPerCategory + 1) |-> ("id" :> i) @@ k] : k \in TierKinds}

\* classify_universities(universities, academic_score)
classify_universities_call ==
  /\ ~ret_classified.called
  /\ ret_classified' = classify_universities(arg_universities, arg_gpa)
  /\ UNCHANGED << dbvars, scoringvars, strengthvars, statusvars, countryvars, queryvars,
                  counselvars, ret_recommended >>

\* the tier loop of GET /recommendations on the rows queried
recommendation_tiers_call ==
  /\ ~ret_recommended.called
  /\ ret_recommended' = recommendation_tiers(arg_universities)
  /\ UNCHANGED << dbvars, scoringvars, strengthvars, statusvars, countryvars, queryvars,
                  counselvars, ret_classified >>

InitTiers ==
  /\ DbIdle /\ StrengthIdle /\ StatusIdle
  /\ CountryIdle /\ QueryIdle /\ TierIdle /\ CounselIdle
  /\ arg_universities \in TierPools
  /\ arg_gpa \in CategorizeGpas
  /\ arg_budget = 40000
  /\ arg_university = [id |-> 0]
  /\ ret_score = NotScored
  /\ ret_categorized = NotCategorized

NextTiers ==
  \/ categorize_universities_call
  \/ classify_universities_call
  \/ recommendation_tiers_call

SpecTiers == InitTiers /\ [][NextTiers]_vars

\* ============================================ service.py: process_counseling
\* service.py is written against declarations that src/ does not hold
\* (schemas.Context and AdvisorResponse, StageEnum.SHORTLISTING, a
\* query_universities taking country and max_tuition): under models.py and
\* schemas.py of src/ its import fails and the function cannot be called.
\* It is modelled as written, for the declarations it names.
\* the stages service.py names, in the order of the pipeline
ServiceStages == << "ONBOARDING", "DISCOVERY", "SHORTLISTING", "LOCKED", "APPLICATION" >>

\* python truth of an optional str and of an optional number
text_given(x) == x # None /\ x[1] # ""
number_given(x) == x # None /\ x[1] # 0

\* the check of service.py:22-27 dropped
missing_nothing(profile) == << >>

\* service.py:22-27
missing_fields(profile) ==
  (IF text_given(profile.name) THEN << >> ELSE << "name" >>)
  \o (IF text_given(profile.email) THEN << >> ELSE << "email" >>)
  \o (IF number_given(profile.academic_score) THEN << >> ELSE << "academic_score" >>)
  \o (IF number_given(profile.budget) THEN << >> ELSE << "budget" >>)
  \o (IF text_given(profile.preferred_country) THEN << >> ELSE << "preferred_country" >>)

\* service.py:43-126: the number of recommendations of the DISCOVERY answer.
\* found is the number of rows the query returns; profile.budget * 1.2 on
\* None, a failing query and classify_universities raising all end in the
\* except of service.py:120-126
discovery_recommendations(c) ==
  IF c.user_profile.budget = None \/ c.repo # "up" THEN 0 ELSE c.found

\* service.py:7-161
process_counseling(c) ==
  LET stage == c.current_stage
      answer(next, missing, n) ==
        [called |-> TRUE, next_stage |-> next, missing_fields |-> missing,
         recommendations |-> n]
  IN IF stage = "ONBOARDING"
       THEN IF missing_fields(c.user_profile) # << >>
              THEN answer("ONBOARDING", missing_fields(c.user_profile), 0)
              ELSE answer("DISCOVERY", << >>, 0)
     ELSE IF stage = "DISCOVERY"
       THEN answer("DISCOVERY", << >>, discovery_recommendations(c))
     ELSE IF stage = "SHORTLISTING"
       THEN IF c.locked_university # None
              THEN answer("LOCKED", << >>, 0)
              ELSE answer("SHORTLISTING", << >>, 0)
     ELSE IF stage = "LOCKED"
       THEN IF c.locked_university # None
              THEN answer("APPLICATION", << >>, 0)
              ELSE answer("DISCOVERY", << >>, 0)
     ELSE IF stage = "APPLICATION"
       THEN answer("APPLICATION", << >>, 0)
     ELSE answer(stage, << >>, 0)

\* inputs: every stage, every combination of absent, empty and given
\* profile fields, with and without a locked university
CounselProfiles ==
  [name : {None, Some(""), Some("Asha")},
   email : {None, Some("asha@example.org")},
   academic_score : {None, Some(0), Some(85)},
   budget : {None, Some(0), Some(30000)},
   preferred_country : {None, Some("Canada")}]
CounselInputs ==
  [current_stage : {ServiceStages[i] : i \in DOMAIN ServiceStages},
   user_profile : CounselProfiles,
   locked_university : {None, Some(1)},
   found : 0..MaxPool,
   repo : RepoStates]

\* process_counseling(context)
process_counseling_call ==
  /\ ~ret_counsel.called
  /\ ret_counsel' = process_counseling(arg_counsel)
  /\ UNCHANGED << dbvars, scoringvars, strengthvars, statusvars, countryvars, queryvars,
                  tiervars, arg_counsel >>

InitCounsel ==
  /\ DbIdle /\ ScoringIdle /\ StrengthIdle /\ StatusIdle
  /\ CountryIdle /\ QueryIdle /\ TierIdle
  /\ arg_counsel \in CounselInputs
  /\ ret_counsel = NotCounselled

NextCounsel == process_counseling_call

SpecCounsel == InitCounsel /\ [][NextCounsel]_vars

\* ================================================================= claims
Locked == get_locked_university(shortlists)
LockedIds == {s.university_id : s \in Locked}

\* C1: after every completed operation of any sequence of add, lock (three
\* endpoints), unlock and remove, at most one shortlist entry of the user
\* is locked.
C1_MutualExclusion == Cardinality(Locked) <= 1

\* C1 witness: a lock request has succeeded while two entries are
\* shortlisted, and exactly the requested one is locked.
C1_Witness ==
  /\ resp.op \in LockOps /\ resp.status = 200
  /\ Cardinality(shortlists) = 2
  /\ Locked = {Entry(shortlists, resp.university_id)}

\* C2 (as claimed), under SpecConc: with the database steps of two lock
\* requests for two different universities interleaved, no committed state
\* has two entries locked.
C2_NoTwoLockedInterleaved ==
  \A s \in shortlists, t \in shortlists : (s.locked /\ t.locked) => s = t

\* C3: a successful lock request repeated right after itself (same
\* endpoint, same university) leaves the single locked entry, the set of
\* shortlisted universities, the stage and the task sequence as the first
\* one left them (no task is duplicated).
C3_LockIdempotent ==
  [][(resp.op \in LockOps /\ resp.status = 200 /\ resp' = resp /\ repeated')
       => /\ LockedIds' = {resp.university_id}
          /\ LockedIds' = LockedIds
          /\ {s.university_id : s \in shortlists'} = {s.university_id : s \in shortlists}
          /\ current_stage' = current_stage
          /\ tasks' = tasks
          /\ Len(tasks') <= Len(tasks_data)]_vars

\* C3 witness: POST /university/lock has just been repeated for the same
\* university, with the seven template tasks stored.
C3_Witness ==
  /\ repeated /\ resp.op = "lock"
  /\ Len(tasks) = Len(tasks_data)
  /\ Locked = {Entry(shortlists, resp.university_id)}

\* C4: a removal request for the entry that is locked is rejected with
\* UNIVERSITY_LOCKED (400) and the entry stays; a removal succeeds only if
\* the entry was not locked when it was requested.
C4_RemoveLockedRejected ==
  [][\A u \in Universities :
       (resp'.op = "remove" /\ resp'.university_id = u
          /\ profile_exists /\ HasEntry(shortlists, u))
       => IF Entry(shortlists, u).locked
            THEN /\ resp'.status = 400 /\ resp'.error = "UNIVERSITY_LOCKED"
                 /\ shortlists' = shortlists
            ELSE /\ resp'.status = 200
                 /\ ~HasEntry(shortlists', u)]_vars

\* C4 witness: a removal was rejected as locked and the entry is still
\* shortlisted and locked.
C4_Witness ==
  /\ resp.op = "remove" /\ resp.error = "UNIVERSITY_LOCKED"
  /\ HasEntry(shortlists, resp.university_id)
  /\ Entry(shortlists, resp.university_id).locked

C6_LockPostcondition ==
  (resp.op \in LockOps /\ resp.status = 200) =>
     /\ current_stage = "LOCKED"
     /\ Locked = {Entry(shortlists, resp.university_id)}
     /\ tasks = template(resp.university_id)

C10_StageMatchesLock ==
  (current_stage \in {"LOCKED", "APPLICATION"}) <=> (Cardinality(Locked) = 1)

TierKeys == {"dream", "target", "safe"}
\* the ids listed under tier key t, and all listed rows in one sequence
ListedIds(t) == {ret_categorized[t][j].id : j \in DOMAIN ret_categorized[t]}
AllListed == ret_categorized.dream \o ret_categorized.target \o ret_categorized.safe
Returned == ret_categorized.called /\ ~ret_categorized.raised

\* C12: each of the three lists categorize_universities returns has at most
\* 5 entries; every input candidate is listed at most once over the three
\* lists and every listed row is an input candidate; the empty pool gives
\* three empty lists and no error.
C12_TierCap ==
  /\ Returned =>
       /\ \A t \in TierKeys : Len(ret_categorized[t]) <= 5
       /\ \A j, k \in DOMAIN AllListed : AllListed[j].id = AllListed[k].id => j = k
       /\ \A j \in DOMAIN AllListed : AllListed[j].id \in DOMAIN arg_universities
  /\ (ret_categorized.called /\ arg_universities = << >>) =>
       /\ ~ret_categorized.raised
       /\ AllListed = << >>

\* C12 witness: a pool with more than five DREAM candidates was
\* categorized and the dream list holds five of them.
C12_Witness ==
  /\ Returned
  /\ Cardinality({i \in DOMAIN arg_universities :
                    category_of(arg_universities[i]) = "DREAM"}) > 5
  /\ Len(ret_categorized.dream) = 5

\* the tier rules as the claim states them, on rank and competitiveness
C13_Tier(rank, c) ==
  IF rank <= 50 /\ c = "HIGH" THEN "dream"
  ELSE IF rank > 100 \/ c \in {"LOW", "VERY_LOW"} THEN "safe"
  ELSE "target"
C13_TierOf(uni) ==
  C13_Tier(IF "rank" \in DOMAIN uni THEN uni.rank[1] ELSE 500,
           get(uni, "competitiveness", "MEDIUM"))

\* C13: every listed candidate is in the list of the tier its rank and
\* competitiveness give by the first matching rule (rank <= 50 and HIGH:
\* REACH; else rank > 100 or LOW / VERY_LOW: SAFE; else TARGET), whatever
\* the gpa and the budget of the call are.
C13_TierByRankAndCompetitiveness ==
  Returned =>
     \A t \in TierKeys : \A j \in DOMAIN ret_categorized[t] :
        C13_TierOf(arg_universities[ret_categorized[t][j].id]) = t

\* C13 witness: a candidate of rank 30 and a competitiveness none of the
\* rules names was listed as TARGET.
C13_Witness ==
  /\ Returned
  /\ Len(ret_categorized.target) = 1
  /\ get(ret_categorized.target[1], "rank", None) = Some(30)
  /\ get(ret_categorized.target[1], "competitiveness", "") = "UNKNOWN"

\* the order of the sorted pool: higher score first, equal scores in input
\* order
C14_Score(i) == score_university(arg_gpa, arg_budget, arg_universities[i]).value
C14_Before(a, b) ==
  C14_Score(a) > C14_Score(b) \/ (C14_Score(a) = C14_Score(b) /\ a < b)
C14_OfTier(t) == {i \in DOMAIN arg_universities : C13_TierOf(arg_universities[i]) = t}

\* C14: each list holds min(5, n) of the n input candidates of its tier,
\* in the order score descending / input order on equal scores, and every
\* candidate of the tier that is left out comes after all the listed ones
\* in that order (it is dropped, not listed under another tier).
C14_FirstFiveByScore ==
  Returned =>
     \A t \in TierKeys :
        LET L == ret_categorized[t]
            n == Cardinality(C14_OfTier(t))
        IN /\ Len(L) = IF n < 5 THEN n ELSE 5
           /\ ListedIds(t) \subseteq C14_OfTier(t)
           /\ \A j, k \in DOMAIN L : j < k => C14_Before(L[j].id, L[k].id)
           /\ \A i \in C14_OfTier(t) \ ListedIds(t) :
                \A j \in DOMAIN L : C14_Before(L[j].id, i)

\* C14 witness: six DREAM candidates; the first of the input has the
\* lowest score and is dropped, the other five are listed in input order
\* with equal scores among them.
C14_Witness ==
  /\ Returned
  /\ Cardinality(C14_OfTier("dream")) = 6
  /\ Len(ret_categorized.dream) = 5
  /\ 1 \in C14_OfTier("dream") \ ListedIds("dream")
  /\ \A j \in 1..5 : ret_categorized.dream[j].id = j + 1
  /\ C14_Score(2) = C14_Score(6)

\* C16 (as claimed): categorize_universities returns for every pool, and a
\* candidate whose rank is absent (no rank key, or rank None) is treated
\* as rank 500: it is never listed as REACH or TARGET.
C16_AbsentRankIsSafe ==
  ret_categorized.called =>
     /\ ~ret_categorized.raised
     /\ \A i \in DOMAIN arg_universities :
          ("rank" \notin DOMAIN arg_universities[i] \/ arg_universities[i].rank = None)
            => i \notin ListedIds("dream") \cup ListedIds("target")

\* C15 (as claimed): score_university returns prestige (rank <= 50: 40,
\* <= 100: 35, <= 200: 30, <= 300: 25, else 20; an absent rank counts as
\* 500) plus cost fit (cost <= 70% of budget: 30, <= budget: 25, <= 120% of
\* budget: 15, else 5) plus academic fit (HIGH: >= 8.5: 30, >= 7.5: 20,
\* else 10; MEDIUM: >= 7.0: 30, >= 6.0: 25, else 15; LOW, VERY_LOW:
\* >= 6.0: 30, else 25), a value in [35, 100].
C15_Prestige(rank) ==
  IF rank <= 50 THEN 40 ELSE IF rank <= 100 THEN 35 ELSE IF rank <= 200 THEN 30
  ELSE IF rank <= 300 THEN 25 ELSE 20
C15_CostFit(cost, b) ==
  IF 10 * cost <= 7 * b THEN 30 ELSE IF cost <= b THEN 25
  ELSE IF 10 * cost <= 12 * b THEN 15 ELSE 5
C15_AcademicFit(c, g) ==
  CASE c = "HIGH" -> (IF g >= 85 THEN 30 ELSE IF g >= 75 THEN 20 ELSE 10)
    [] c = "MEDIUM" -> (IF g >= 70 THEN 30 ELSE IF g >= 60 THEN 25 ELSE 15)
    [] OTHER -> (IF g >= 60 THEN 30 ELSE 25)
C15_ScoreIsSum ==
  (ret_score.called /\ ~ret_score.raised) =>
     /\ ret_score.value =
          C15_Prestige(IF "rank" \in DOMAIN arg_university
                         THEN arg_university.rank[1] ELSE 500)
          + C15_CostFit(get(arg_university, "estimated_tuition_usd", 0), arg_budget)
          + C15_AcademicFit(get(arg_university, "competitiveness", "MEDIUM"), arg_gpa)
     /\ ret_score.value >= 35 /\ ret_score.value <= 100

\* the status words as the claim lists them
C20_Completed ==
  { << "c", "o", "m", "p", "l", "e", "t", "e", "d" >>,
    << "d", "o", "n", "e" >>,
    << "r", "e", "a", "d", "y" >>,
    << "f", "i", "n", "i", "s", "h", "e", "d" >> }
C20_InProgress ==
  { << "i", "n", " ", "p", "r", "o", "g", "r", "e", "s", "s" >>,
    << "i", "n", "_", "p", "r", "o", "g", "r", "e", "s", "s" >>,
    << "d", "r", "a", "f", "t" >>,
    << "d", "r", "a", "f", "t", "i", "n", "g" >>,
    << "s", "t", "a", "r", "t", "e", "d" >>,
    << "p", "l", "a", "n", "n", "i", "n", "g" >> }
C20_NotStarted ==
  { << "n", "o", "t", " ", "s", "t", "a", "r", "t", "e", "d" >>,
    << "n", "o", "t", "_", "s", "t", "a", "r", "t", "e", "d" >>,
    << "p", "e", "n", "d", "i", "n", "g" >>,
    << "t", "o", "d", "o" >>,
    << "n", "o", "n", "e" >> }
C20_Blank(s) == \A i \in DOMAIN s : s[i] \in Whitespace
C20_SameLetter(c, d) ==
  c = d \/ \E i \in DOMAIN Uppercase : Uppercase[i] = c /\ Lowercase[i] = d
\* s is the word w in any letter case between whitespace
C20_Is(s, w) ==
  \E a \in 0..Len(s) :
     /\ a + Len(w) <= Len(s)
     /\ \A i \in 1..a : s[i] \in Whitespace
     /\ \A i \in (a + Len(w) + 1)..Len(s) : s[i] \in Whitespace
     /\ \A j \in 1..Len(w) : C20_SameLetter(s[a + j], w[j])
C20_In(s, words) == \E w \in words : C20_Is(s, w)

\* C20: normalize_status returns for every status one of NOT_STARTED,
\* IN_PROGRESS, COMPLETED: NOT_STARTED for None, the empty and the
\* all-whitespace string; otherwise, by the trimmed string compared without
\* regard to case, COMPLETED for a completed synonym, IN_PROGRESS for an
\* in-progress synonym, NOT_STARTED for a not-started synonym and
\* IN_PROGRESS for every other string.
C20_NormalizeStatus ==
  ret_normalized.called =>
     /\ ret_normalized.value \in {"NOT_STARTED", "IN_PROGRESS", "COMPLETED"}
     /\ ret_normalized.value =
          IF arg_status = None THEN "NOT_STARTED"
          ELSE IF C20_Blank(arg_status[1]) THEN "NOT_STARTED"
          ELSE IF C20_In(arg_status[1], C20_Completed) THEN "COMPLETED"
          ELSE IF C20_In(arg_status[1], C20_InProgress) THEN "IN_PROGRESS"
          ELSE IF C20_In(arg_status[1], C20_NotStarted) THEN "NOT_STARTED"
          ELSE "IN_PROGRESS"

\* C20 witness: a completed synonym written in capitals behind whitespace
\* was normalized to COMPLETED.
C20_Witness ==
  /\ ret_normalized.called /\ ret_normalized.value = "COMPLETED"
  /\ arg_status # None
  /\ Len(arg_status[1]) > 1
  /\ arg_status[1][1] \in Whitespace
  /\ \E i \in DOMAIN Uppercase : arg_status[1][2] = Uppercase[i]

\* ---- calculate_profile_strength
SectionNames == {"academics", "exams", "sop", "documents", "preferences"}
\* the section maxima as the claim gives them
C17_Max ==
  [academics |-> 30, exams |-> 25, sop |-> 20, documents |-> 15, preferences |-> 10]
C17_IsCompleted(st) == st # None /\ C20_In(st[1], C20_Completed)
C17_HasText(x) == x # None /\ ~C20_Blank(x[1])
\* every scored item present, every status a completed one
C17_Complete ==
  /\ arg_profile.gpa # None /\ arg_profile.gpa[1] > 0
  /\ C17_HasText(arg_profile.degree)
  /\ arg_profile.graduation_year # None /\ arg_profile.graduation_year[1] > 0
  /\ C17_IsCompleted(arg_profile.ielts_status)
  /\ C17_IsCompleted(arg_profile.gre_gmat_status)
  /\ C17_IsCompleted(arg_profile.sop_status)
  /\ C17_HasText(arg_profile.funding_plan)
  /\ arg_profile.preferred_countries # None
  /\ arg_profile.preferred_countries[1] # << >>
  /\ arg_profile.budget_per_year # None /\ arg_profile.budget_per_year[1] > 0
  /\ C17_HasText(arg_profile.field_of_study)

\* C17: the overall score calculate_profile_strength returns is the sum of
\* the five section scores and lies in [0, 100]; every section score is
\* within 0 and the section's maximum (academics 30, exams 25, sop 20,
\* documents 15, preferences 10); the overall score of a profile with
\* every scored item present and every status completed is 100.
C17_OverallIsSectionSum ==
  ret_strength.called =>
     LET sec == ret_strength.sections
     IN /\ ret_strength.overall =
             sec.academics.score + sec.exams.score + sec.sop.score
             + sec.documents.score + sec.preferences.score
        /\ ret_strength.overall >= 0 /\ ret_strength.overall <= 100
        /\ \A n \in SectionNames :
             /\ sec[n].score >= 0 /\ sec[n].score <= C17_Max[n]
             /\ sec[n].max = C17_Max[n]
        /\ C17_Complete => ret_strength.overall = 100

\* C17 witness: the strength of a complete profile was calculated as 100.
C17_Witness ==
  /\ ret_strength.called
  /\ C17_Complete
  /\ ret_strength.overall = 100

\* the section status as the claim derives it from score / max
C18_Status(sc, mx) ==
  IF sc = 0 THEN "missing"
  ELSE IF 100 * sc >= 80 * mx THEN "strong"
  ELSE IF 100 * sc >= 40 * mx THEN "average"
  ELSE "weak"

\* C18 (as claimed): every section's status is "missing" for score 0,
\* "strong" from 80% of the maximum, "average" from 40%, "weak" below; so
\* every section of a complete profile is "strong".
C18_SectionStatusByRatio ==
  ret_strength.called =>
     \A n \in SectionNames :
        ret_strength.sections[n].status =
          C18_Status(ret_strength.sections[n].score, ret_strength.sections[n].max)

\* the suggestions in the fixed order of their items, and whether the
\* item is missing in the profile
C19_Order ==
  << "Add your GPA", "Add your degree", "Complete IELTS exam",
     "Complete GRE/GMAT exam", "Complete your SOP", "Define your funding plan",
     "Select preferred countries" >>
C19_NotStarted(st) ==
  st = None \/ C20_Blank(st[1]) \/ C20_In(st[1], C20_NotStarted)
C19_IsMissing ==
  << ~(arg_profile.gpa # None /\ arg_profile.gpa[1] > 0),
     ~C17_HasText(arg_profile.degree),
     C19_NotStarted(arg_profile.ielts_status),
     C19_NotStarted(arg_profile.gre_gmat_status),
     C19_NotStarted(arg_profile.sop_status),
     ~C17_HasText(arg_profile.funding_plan),
     ~(arg_profile.preferred_countries # None
       /\ arg_profile.preferred_countries[1] # << >>) >>
C19_Missing == {i \in DOMAIN C19_Order : C19_IsMissing[i]}
C19_Listed ==
  {i \in DOMAIN C19_Order :
     \E j \in DOMAIN ret_strength.next_actions : ret_strength.next_actions[j] = C19_Order[i]}

\* C19: calculate_profile_strength returns at most 3 next actions; they
\* are suggestions for missing items, in the fixed item order (GPA, degree,
\* English test, graduate exam, statement of purpose, funding plan,
\* preferred countries), and every missing item without a suggestion comes
\* later in that order than all the listed ones.
C19_FirstThreeMissing ==
  ret_strength.called =>
     LET acts == ret_strength.next_actions
     IN /\ Len(acts) <= 3
        /\ Len(acts) = IF Cardinality(C19_Missing) < 3 THEN Cardinality(C19_Missing) ELSE 3
        /\ \A j \in DOMAIN acts : \E i \in C19_Missing : acts[j] = C19_Order[i]
        /\ \A j, k \in DOMAIN acts : j < k =>
             \E a, b \in C19_Missing : a < b /\ acts[j] = C19_Order[a] /\ acts[k] = C19_Order[b]
        /\ \A m \in C19_Missing \ C19_Listed : \A i \in C19_Listed : i < m

\* C19 witness: five or more items are missing, GPA is not one of them,
\* and three suggestions starting with the degree were returned.
C19_Witness ==
  /\ ret_strength.called
  /\ Cardinality(C19_Missing) >= 5
  /\ 1 \notin C19_Missing
  /\ Len(ret_strength.next_actions) = 3
  /\ ret_strength.next_actions[1] = "Add your degree"

\* C21: normalize_country returns the canonical name of the alias that the
\* trimmed input equals without regard to case, the trimmed input when
\* there is no such alias, and the empty string for None and for the empty
\* string; it always returns a string.
C21_Alias(text) ==
  {i \in DOMAIN COUNTRY_MAPPING : lower(COUNTRY_MAPPING[i][1]) = lower(strip(text))}
C21_Expected(country) ==
  IF country = None \/ country[1] = << >> THEN << >>
  ELSE IF C21_Alias(country[1]) # {}
    THEN COUNTRY_MAPPING[CHOOSE i \in C21_Alias(country[1]) : TRUE][2]
  ELSE strip(country[1])
C21_AliasLookup ==
  ret_country.called => ret_country.value = C21_Expected(arg_country)

\* C22: normalize_country applied to its own result returns that result,
\* and a canonical name is returned unchanged.
C22_Canonical == {COUNTRY_MAPPING[i][2] : i \in DOMAIN COUNTRY_MAPPING}
C22_Idempotent ==
  /\ ret_country.again => ret_country.second = ret_country.value
  /\ (ret_country.called /\ arg_country # None /\ arg_country[1] \in C22_Canonical)
       => ret_country.value = arg_country[1]

\* C23: every row the criteria form of query_universities returns is of a
\* country matching one of the requested, normalized countries (the default
\* countries when none is requested) and, when a positive budget is passed,
\* has a tuition of at most the budget.
C23_Criteria == ~id_mode(arg_query.university_ids)
C23_Matches(row) ==
  /\ ilike_any(row.country, normalized_countries(arg_query.countries))
  /\ (arg_query.max_budget # None /\ arg_query.max_budget[1] > 0)
       => (row.estimated_tuition_usd # None
           /\ row.estimated_tuition_usd[1] <= arg_query.max_budget[1])
C23_ReturnedRowsPassFilter ==
  (ret_universities.called /\ ~ret_universities.raised /\ C23_Criteria)
    => \A k \in DOMAIN ret_universities.rows : C23_Matches(ret_universities.rows[k])

\* C24: a recommendation request during which the universities repository
\* fails completes with no university in any tier list and leaves the
\* profile, the stage, the shortlist and the tasks as they were.
C24_RepoFailures == RepoStates \ {"up"}
C24_ReadPathDegrades ==
  [][(\E n \in 0..MaxPool, repo \in C24_RepoFailures :
        get_deterministic_recommendations(n, repo))
       => /\ resp'.op = "recommendations" /\ resp'.status = 200 /\ resp'.n = 0
          /\ UNCHANGED << profile_exists, profile_complete, current_stage,
                          shortlists, tasks >>]_vars
\* a request of a complete profile with a locked entry and its tasks was
\* answered with empty tier lists
C24_Witness ==
  /\ resp.op = "recommendations" /\ resp.n = 0
  /\ profile_complete /\ Locked # {} /\ tasks # << >>

\* C25: a state-mutating request that answers with success has made its
\* mutation: after a successful add the university has a shortlist entry,
\* after a successful POST /university/lock the stage is LOCKED and the
\* seven tasks of the locked university are stored.
C25_WritesSurfaceFailures ==
  /\ (resp.op \in {"add", "add_alt"} /\ resp.status = 200)
       => HasEntry(shortlists, resp.university_id)
  /\ (resp.op = "lock" /\ resp.status = 200)
       => /\ current_stage = "LOCKED"
          /\ Len(tasks) = Len(tasks_data)
          /\ \A i \in DOMAIN tasks : tasks[i].university_id = resp.university_id

\* C26: for every pool the tier lists of GET /recommendations and of
\* classify_universities hold the same candidates as those of
\* categorize_universities: each candidate in the same tier, at most five
\* per tier.
C26_Ids(r, k) == {r[k][i].id : i \in DOMAIN r[k]}
C26_SameTiers(r) ==
  (r.called /\ ret_categorized.called)
    => /\ r.raised = ret_categorized.raised
       /\ \A k \in TierKeys :
            /\ C26_Ids(r, k) = C26_Ids(ret_categorized, k)
            /\ Len(r[k]) <= MaxPerCategory
C26_EveryPathUsesTierClassifier ==
  C26_SameTiers(ret_recommended) /\ C26_SameTiers(ret_classified)

\* C27: the next_stage process_counseling returns is at most one step
\* ahead of the current stage; it is ahead of ONBOARDING only when name,
\* email, academic_score, budget and preferred_country are all given, and
\* ahead of SHORTLISTING or LOCKED only when a university is locked;
\* LOCKED without a locked university returns DISCOVERY, and APPLICATION
\* returns APPLICATION.
C27_Index(stage) == CHOOSE i \in DOMAIN ServiceStages : ServiceStages[i] = stage
C27_ProfileGiven ==
  LET p == arg_counsel.user_profile
  IN /\ p.name \notin {None, Some("")} /\ p.email \notin {None, Some("")}
     /\ p.academic_score \notin {None, Some(0)} /\ p.budget \notin {None, Some(0)}
     /\ p.preferred_country \notin {None, Some("")}
C27_HasLocked == arg_counsel.locked_university # None
C28_Of(sl, u) == {s \in sl : s.university_id = u}
C28_ReAddKeepsEntry ==
  [][/\ \A u \in Universities :
          (resp'.op \in {"add", "add_alt"} /\ resp'.university_id = u
             /\ HasEntry(shortlists, u))
          => /\ Cardinality(C28_Of(shortlists', u)) = 1
             /\ \A s \in C28_Of(shortlists', u), t \in C28_Of(shortlists, u) :
                  s.locked = t.locked
             /\ shortlists' \ C28_Of(shortlists', u) = shortlists \ C28_Of(shortlists, u)
             /\ current_stage' = current_stage
             /\ tasks' = tasks
     /\ \A u \in Universities : Cardinality(C28_Of(shortlists', u)) <= 1]_vars
\* an add was answered with success for a university whose entry is locked
\* (a new entry is never locked) while another university is shortlisted
\* and tasks are stored
C28_Witness ==
  /\ resp.op \in {"add", "add_alt"} /\ resp.status = 200
  /\ \E s \in shortlists : s.university_id = resp.university_id /\ s.locked
  /\ \E s \in shortlists : s.university_id # resp.university_id
  /\ tasks # << >>

\* C29: a lock request (POST /university/lock, PATCH /shortlist/lock,
\* PATCH /shortlist) for a university that has no shortlist entry is
\* answered with an error and leaves the shortlist, with the entry that
\* was locked, the stage and the tasks as they were.
C29_LockOfUnlistedChangesNothing ==
  [][\A u \in Universities :
       (resp'.op \in {"lock", "lock_shortlist", "patch"} /\ resp'.university_id = u
          /\ ~HasEntry(shortlists, u))
       => /\ resp'.status \in {400, 404} /\ resp'.error # ""
          /\ shortlists' = shortlists
          /\ get_locked_university(shortlists') = get_locked_university(shortlists)
          /\ current_stage' = current_stage
          /\ tasks' = tasks]_vars
\* a lock request was refused for a university without entry while another
\* university is locked with its tasks stored
C29_Witness ==
  /\ resp.op \in {"lock", "lock_shortlist"} /\ resp.status \in {400, 404}
  /\ profile_exists /\ ~HasEntry(shortlists, resp.university_id)
  /\ Locked # {} /\ tasks # << >> /\ current_stage = "LOCKED"

====
